---- MODULE Spec2Model ----
(***************************************************************************)
(* Model of the WASM JSON codec of src/wasm-regex-engine/src/lib.rs:       *)
(* the bridge json_value_to_js, MessageSerializer (TextCodec) and          *)
(* StateSerializer (StateCodec).                                           *)
(*                                                                         *)
(* A text (a str, a String, the bytes of a Vec<u8>) is the run-length form *)
(* of its characters: the sequence of its maximal runs [c, n] of n equal   *)
(* characters c, so that a string longer than the 4096-byte buffer is a    *)
(* short value.  All characters are ASCII: one character is one byte.      *)
(* Integers that do not fit TLC's 32-bit          *)
(* arithmetic (u64, i64, the 53-bit significand of an f64) are kept at     *)
(* their real width as sequences of 16-bit limbs.                          *)
(***************************************************************************)
EXTENDS Integers, Sequences, FiniteSets, TLC

(***************************************************************************)
(* Program constants.                                                      *)
(***************************************************************************)
MSG_FLOOR == 4096
STATE_FLOOR == 8192
\* f64 has a 53-bit significand; i64 holds magnitudes below 2^63, u64 below 2^64.
F64_BITS == 53
I64_BITS == 63
U64_BITS == 64

(***************************************************************************)
(* Bounds of the model.                                                    *)
(***************************************************************************)
\* the most nodes of a JSON tree given to the bridge
MaxNodes == 4
\* the most elements of a batch
MaxBatch == 2
\* the length of the long string, above both floor capacities
BigLen == 8200

Max(a, b) == IF a >= b THEN a ELSE b

(***************************************************************************)
(* Texts.                                                                  *)
(***************************************************************************)
Run(c, n) == [c |-> c, n |-> n]

\* the number of bytes of a text
RECURSIVE TLen(_)
TLen(t) == IF t = <<>> THEN 0 ELSE t[1].n + TLen(Tail(t))

\* concatenation: the runs that meet are joined when of the same character
Cat(a, b) ==
    IF a = <<>> THEN b
    ELSE IF b = <<>> THEN a
    ELSE IF a[Len(a)].c = b[1].c
         THEN SubSeq(a, 1, Len(a) - 1) \o <<Run(b[1].c, a[Len(a)].n + b[1].n)>> \o Tail(b)
         ELSE a \o b

\* the text of a sequence of characters
RECURSIVE FromChars(_)
FromChars(cs) ==
    IF cs = <<>> THEN <<>> ELSE Cat(<<Run(Head(cs), 1)>>, FromChars(Tail(cs)))

\* the characters of a text, one by one
RECURSIVE Chars(_)
Chars(t) ==
    IF t = <<>> THEN <<>> ELSE [i \in 1..t[1].n |-> t[1].c] \o Chars(Tail(t))

\* the concatenation of a sequence of texts
RECURSIVE Flatten(_)
Flatten(chunks) ==
    IF chunks = <<>> THEN <<>> ELSE Cat(Head(chunks), Flatten(Tail(chunks)))

(***************************************************************************)
(* Arithmetic on naturals of any width: little-endian sequences of 16-bit  *)
(* limbs without leading zero limbs (<<>> is 0, <<1>> is 1, <<0, 1>> is    *)
(* 65536).                                                                 *)
(***************************************************************************)
LimbBits == 4 * 4
Base == 2 ^ LimbBits

RECURSIVE AddC(_, _, _)
AddC(a, b, c) ==
    IF a = <<>> /\ b = <<>>
    THEN IF c = 1 THEN <<1>> ELSE <<>>
    ELSE LET x == IF a = <<>> THEN 0 ELSE Head(a)
             y == IF b = <<>> THEN 0 ELSE Head(b)
             s == x + y + c
         IN  <<s % Base>> \o AddC(IF a = <<>> THEN a ELSE Tail(a),
                                  IF b = <<>> THEN b ELSE Tail(b), s \div Base)

BAdd(a, b) == AddC(a, b, 0)

RECURSIVE MulC(_, _, _)
MulC(a, m, c) ==
    IF a = <<>>
    THEN IF c = 0 THEN <<>> ELSE <<c>>
    ELSE LET s == Head(a) * m + c
         IN  <<s % Base>> \o MulC(Tail(a), m, s \div Base)

Mul10(a) == MulC(a, 10, 0)

NatBits(n) == IF n = 0 THEN <<>> ELSE <<n>>

RECURSIVE Strip(_)
Strip(a) == IF a = <<>> \/ a[Len(a)] # 0 THEN a ELSE Strip(SubSeq(a, 1, Len(a) - 1))

Pow2(n) == [i \in 1..(n \div LimbBits) |-> 0] \o <<2 ^ (n % LimbBits)>>

\* the number of bits of a limb: 0 for 0, 16 for 65535
RECURSIVE LimbLen(_)
LimbLen(x) == IF x = 0 THEN 0 ELSE 1 + LimbLen(x \div 2)

BitLen(a) == IF a = <<>> THEN 0 ELSE LimbBits * (Len(a) - 1) + LimbLen(a[Len(a)])

\* bit p of a, bit 0 the lowest
Bit(a, p) ==
    IF p \div LimbBits + 1 > Len(a) THEN 0
    ELSE (a[p \div LimbBits + 1] \div (2 ^ (p % LimbBits))) % 2

\* a with its lowest n bits set to 0
ClearLow(a, n) ==
    Strip([i \in 1..Len(a) |->
              IF i <= n \div LimbBits THEN 0
              ELSE IF i = n \div LimbBits + 1
                   THEN a[i] - (a[i] % (2 ^ (n % LimbBits)))
                   ELSE a[i]])

\* step i of the long division of a by ten, from the top limb down
RECURSIVE DivStep(_, _, _)
DivStep(a, i, rem) ==
    IF i = 0 THEN [q |-> <<>>, r |-> rem]
    ELSE LET cur  == Base * rem + a[i]
             rest == DivStep(a, i - 1, cur % 10)
         IN  [q |-> rest.q \o <<cur \div 10>>, r |-> rest.r]

DivMod10(a) == LET d == DivStep(a, Len(a), 0) IN [q |-> Strip(d.q), r |-> d.r]

DigitChars == <<"0", "1", "2", "3", "4", "5", "6", "7", "8", "9">>

IsDigit(c) == \E i \in 1..10 : DigitChars[i] = c

DigitVal(c) == (CHOOSE i \in 1..10 : DigitChars[i] = c) - 1

RECURSIVE DecDigits(_)
DecDigits(a) ==
    IF a = <<>> THEN <<>>
    ELSE LET d == DivMod10(a) IN DecDigits(d.q) \o <<DigitChars[d.r + 1]>>

\* a cast through f32: a 24-bit significand
CastF32(mag) ==
    LET shift == BitLen(mag) - 24
    IN  IF shift <= 0 THEN mag
        ELSE LET kept   == ClearLow(mag, shift)
                 guard  == Bit(mag, shift - 1) = 1
                 sticky == \E p \in 0..(shift - 2) : Bit(mag, p) = 1
                 odd    == Bit(mag, shift) = 1
             IN  IF guard /\ (sticky \/ odd) THEN BAdd(kept, Pow2(shift)) ELSE kept

\* `as f64` of an integer magnitude: the nearest value with a 53-bit
\* significand, ties to the even one
CastF64(mag) ==
    LET shift == BitLen(mag) - F64_BITS
    IN  IF shift <= 0 THEN mag
        ELSE LET kept   == ClearLow(mag, shift)
                 guard  == Bit(mag, shift - 1) = 1
                 sticky == \E p \in 0..(shift - 2) : Bit(mag, p) = 1
                 odd    == Bit(mag, shift) = 1
             IN  IF guard /\ (sticky \/ odd) THEN BAdd(kept, Pow2(shift)) ELSE kept

\* the decimal numeral of a natural (itoa)
Itoa(a) == IF a = <<>> THEN <<"0">> ELSE DecDigits(a)

\* the natural a decimal numeral denotes
RECURSIVE FromDigits(_)
FromDigits(ds) ==
    IF ds = <<>> THEN <<>>
    ELSE BAdd(Mul10(FromDigits(SubSeq(ds, 1, Len(ds) - 1))),
              NatBits(DigitVal(ds[Len(ds)])))


(***************************************************************************)
(* serde_json::Value, the JSON tree.  A number is what serde_json's        *)
(* Number holds: repr "U64" (PosInt), "I64" (NegInt, mag the magnitude) or *)
(* "F64"; only integer-valued floats are represented.  An object is the    *)
(* sequence of its (key, value) entries in the Map's iteration order, keys *)
(* unique.                                                                 *)
(***************************************************************************)
JNull == [kind |-> "null"]
JBool(b) == [kind |-> "bool", b |-> b]
JNum(repr, neg, mag) == [kind |-> "number", repr |-> repr, neg |-> neg, mag |-> mag]
JInt(n) == JNum("U64", FALSE, NatBits(n))
JStr(s) == [kind |-> "string", s |-> s]
JArr(items) == [kind |-> "array", items |-> items]
JObj(pairs) == [kind |-> "object", pairs |-> pairs]
Pair(k, v) == [key |-> k, val |-> v]

Keys(pairs) == {pairs[i].key : i \in 1..Len(pairs)}

\* Map::insert: a key already present keeps its place and takes the new value
MapInsert(pairs, k, v) ==
    IF k \in Keys(pairs)
    THEN [i \in 1..Len(pairs) |-> IF pairs[i].key = k THEN Pair(k, v) ELSE pairs[i]]
    ELSE Append(pairs, Pair(k, v))

(***************************************************************************)
(* serde_json::from_str: text -> tree, or a parse error.                   *)
(* Not modelled: fraction and exponent syntax of numbers, \b \f \u escapes *)
(* (no input text of the model contains them).                             *)
(***************************************************************************)
Quote == "\""
Backslash == "\\"
WsChars == {" ", "\n", "\t", "\r"}

PFail == [ok |-> FALSE]
POk(v, next) == [ok |-> TRUE, val |-> v, next |-> next]

At(s, i) == IF i >= 1 /\ i <= Len(s) THEN s[i] ELSE "EOF"

RECURSIVE SkipWs(_, _)
SkipWs(s, i) == IF At(s, i) \in WsChars THEN SkipWs(s, i + 1) ELSE i

\* the index after the run of digits that starts at i
RECURSIVE DigitsEnd(_, _)
DigitsEnd(s, i) == IF IsDigit(At(s, i)) THEN DigitsEnd(s, i + 1) ELSE i

\* ParserNumber of an integer literal: u64, else i64, else f64
IntegerNumber(neg, mag) ==
    IF BitLen(mag) > U64_BITS THEN JNum("F64", neg, CastF64(mag))
    ELSE IF ~neg THEN JNum("U64", FALSE, mag)
    ELSE IF mag = <<>> \/ (BitLen(mag) > I64_BITS /\ mag # Pow2(I64_BITS))
         THEN JNum("F64", TRUE, CastF64(mag))
         ELSE JNum("I64", TRUE, mag)

ParseNumber(s, i) ==
    LET neg == At(s, i) = "-"
        j   == IF neg THEN i + 1 ELSE i
        k   == DigitsEnd(s, j)
    IN  IF k = j THEN PFail
        ELSE IF At(s, j) = "0" /\ k > j + 1 THEN PFail
        ELSE POk(IntegerNumber(neg, FromDigits(SubSeq(s, j, k - 1))), k)

Unescape(c) ==
    CASE c = "n" -> "\n"
      [] c = "t" -> "\t"
      [] c = "r" -> "\r"
      [] OTHER -> c

\* the characters of a string literal from i (after the opening quote) on
RECURSIVE ParseStrBody(_, _)
ParseStrBody(s, i) ==
    LET c == At(s, i)
    IN  IF c = "EOF" \/ c \in {"\n", "\t", "\r"} THEN PFail
        ELSE IF c = Quote THEN POk(<<>>, i + 1)
        ELSE IF c = Backslash
             THEN IF At(s, i + 1) \in {Quote, Backslash, "/", "n", "t", "r"}
                  THEN LET r == ParseStrBody(s, i + 2)
                       IN  IF r.ok THEN POk(<<Unescape(At(s, i + 1))>> \o r.val, r.next)
                           ELSE PFail
                  ELSE PFail
             ELSE LET r == ParseStrBody(s, i + 1)
                  IN  IF r.ok THEN POk(<<c>> \o r.val, r.next) ELSE PFail

ParseLiteral(s, i, word, v) ==
    IF i + Len(word) - 1 <= Len(s) /\ SubSeq(s, i, i + Len(word) - 1) = word
    THEN POk(v, i + Len(word))
    ELSE PFail

RECURSIVE ParseValue(_, _)
RECURSIVE ParseItems(_, _, _)
RECURSIVE ParseMembers(_, _, _)

\* the items of an array from i on, acc the items parsed so far
ParseItems(s, i, acc) ==
    LET r == ParseValue(s, i)
    IN  IF ~r.ok THEN PFail
        ELSE LET j == SkipWs(s, r.next)
             IN  IF At(s, j) = "," THEN ParseItems(s, j + 1, Append(acc, r.val))
                 ELSE IF At(s, j) = "]" THEN POk(JArr(Append(acc, r.val)), j + 1)
                 ELSE PFail

\* the members of an object from i on, acc the entries parsed so far
ParseMembers(s, i, acc) ==
    LET j == SkipWs(s, i)
    IN  IF At(s, j) # Quote THEN PFail
        ELSE LET k == ParseStrBody(s, j + 1)
             IN  IF ~k.ok THEN PFail
                 ELSE LET c == SkipWs(s, k.next)
                      IN  IF At(s, c) # ":" THEN PFail
                          ELSE LET r == ParseValue(s, c + 1)
                               IN  IF ~r.ok THEN PFail
                                   ELSE LET e   == SkipWs(s, r.next)
                                            new == MapInsert(acc, FromChars(k.val), r.val)
                                        IN  IF At(s, e) = ","
                                            THEN ParseMembers(s, e + 1, new)
                                            ELSE IF At(s, e) = "}"
                                                 THEN POk(JObj(new), e + 1)
                                                 ELSE PFail

ParseValue(s, i0) ==
    LET i == SkipWs(s, i0)
        c == At(s, i)
    IN  CASE c = "n" -> ParseLiteral(s, i, <<"n", "u", "l", "l">>, JNull)
          [] c = "t" -> ParseLiteral(s, i, <<"t", "r", "u", "e">>, JBool(TRUE))
          [] c = "f" -> ParseLiteral(s, i, <<"f", "a", "l", "s", "e">>, JBool(FALSE))
          [] c = "-" \/ IsDigit(c) -> ParseNumber(s, i)
          [] c = Quote ->
                LET r == ParseStrBody(s, i + 1)
                IN  IF r.ok THEN POk(JStr(FromChars(r.val)), r.next) ELSE PFail
          [] c = "[" ->
                LET j == SkipWs(s, i + 1)
                IN  IF At(s, j) = "]" THEN POk(JArr(<<>>), j + 1)
                    ELSE ParseItems(s, j, <<>>)
          [] c = "{" ->
                LET j == SkipWs(s, i + 1)
                IN  IF At(s, j) = "}" THEN POk(JObj(<<>>), j + 1)
                    ELSE ParseMembers(s, j, <<>>)
          [] OTHER -> PFail

\* serde_json::from_str: one value, then only whitespace up to the end
from_str(json_str) ==
    LET s == Chars(json_str)
        r == ParseValue(s, 1)
    IN  IF r.ok /\ SkipWs(s, r.next) = Len(s) + 1
        THEN [ok |-> TRUE, val |-> r.val]
        ELSE [ok |-> FALSE]


(***************************************************************************)
(* JsValue, the host value.  A number is an f64 (integer-valued here: sign *)
(* and magnitude).  An object has its own properties, in the order they    *)
(* were set, and its prototype: ObjectPrototype for an object made by      *)
(* Object::new() until a set of "__proto__" replaces it.  HFunction stands *)
(* for the host values serde_wasm_bindgen cannot read (functions, symbols).*)
(***************************************************************************)
HNull == [kind |-> "null"]
HUndefined == [kind |-> "undefined"]
HFunction == [kind |-> "function"]
ObjectPrototype == [kind |-> "ObjectPrototype"]
HBool(b) == [kind |-> "boolean", b |-> b]
HNum(neg, mag) == [kind |-> "number", neg |-> neg, mag |-> mag]
HInt(n) == HNum(FALSE, NatBits(n))
HStr(s) == [kind |-> "string", s |-> s]
HArr(items) == [kind |-> "array", items |-> items]
HObj(props, proto) == [kind |-> "object", props |-> props, proto |-> proto]

Ok(v) == [ok |-> TRUE, val |-> v]
Err(e) == [ok |-> FALSE, err |-> e]

ProtoKey == FromChars(<<"_", "_", "p", "r", "o", "t", "o", "_", "_">>)

\* Number::as_i64: a PosInt up to i64::MAX, or a NegInt
as_i64(n) ==
    IF n.repr = "I64" \/ (n.repr = "U64" /\ BitLen(n.mag) <= I64_BITS)
    THEN [some |-> TRUE, neg |-> n.neg, mag |-> n.mag]
    ELSE [some |-> FALSE]

\* Number::as_f64: defined for every Number
as_f64(n) == [some |-> TRUE, neg |-> n.neg, mag |-> CastF64(n.mag)]

\* js_sys::Reflect::set(target, key, value) on an object made by Object::new():
\* the host's ordinary [[Set]].  "__proto__" is an accessor of Object.prototype
\* whose setter replaces the prototype when the value is an object or null and
\* does nothing otherwise; any other key becomes (or overwrites) an own property.
ReflectSet(obj, key, val) ==
    IF key = ProtoKey
    THEN IF val.kind \in {"object", "array", "null", "function"}
         THEN [obj EXCEPT !.proto = val]
         ELSE obj
    ELSE [obj EXCEPT !.props = MapInsert(obj.props, key, val)]

RECURSIVE json_value_to_js(_)
RECURSIVE BridgeItems(_, _, _)
RECURSIVE BridgePairs(_, _, _)

\* the loop of the Array arm: items i.. of arr pushed onto js_array
BridgeItems(arr, i, js_array) ==
    IF i > Len(arr) THEN Ok(js_array)
    ELSE LET js_item == json_value_to_js(arr[i])
         IN  IF ~js_item.ok THEN js_item
             ELSE BridgeItems(arr, i + 1,
                              [js_array EXCEPT !.items = Append(@, js_item.val)])

\* the loop of the Object arm: entries i.. of obj set on js_object
BridgePairs(obj, i, js_object) ==
    IF i > Len(obj) THEN Ok(js_object)
    ELSE LET js_val == json_value_to_js(obj[i].val)
         IN  IF ~js_val.ok THEN js_val
             ELSE BridgePairs(obj, i + 1, ReflectSet(js_object, obj[i].key, js_val.val))

json_value_to_js(value) ==
    CASE value.kind = "null" -> Ok(HNull)
      [] value.kind = "bool" -> Ok(HBool(value.b))
      [] value.kind = "number" ->
            LET i == as_i64(value)
                f == as_f64(value)
            IN  IF i.some THEN Ok(HNum(i.neg, CastF64(i.mag)))
                ELSE IF f.some THEN Ok(HNum(f.neg, f.mag))
                ELSE Err("Invalid number")
      [] value.kind = "string" -> Ok(HStr(value.s))
      [] value.kind = "array" -> BridgeItems(value.items, 1, HArr(<<>>))
      [] value.kind = "object" -> BridgePairs(value.pairs, 1, HObj(<<>>, ObjectPrototype))

(***************************************************************************)
(* serde_wasm_bindgen::from_value into serde_json::Value: host -> tree.    *)
(***************************************************************************)
\* Number.isSafeInteger: magnitude at most 2^53 - 1
IsSafeInteger(h) == BitLen(h.mag) <= F64_BITS

RECURSIVE from_value(_)
RECURSIVE FromItems(_, _, _)
RECURSIVE FromProps(_, _, _)

FromItems(items, i, acc) ==
    IF i > Len(items) THEN Ok(JArr(acc))
    ELSE LET r == from_value(items[i])
         IN  IF ~r.ok THEN r ELSE FromItems(items, i + 1, Append(acc, r.val))

FromProps(props, i, acc) ==
    IF i > Len(props) THEN Ok(JObj(acc))
    ELSE LET r == from_value(props[i].val)
         IN  IF ~r.ok THEN r
             ELSE FromProps(props, i + 1, MapInsert(acc, props[i].key, r.val))

from_value(h) ==
    CASE h.kind \in {"null", "undefined"} -> Ok(JNull)
      [] h.kind = "boolean" -> Ok(JBool(h.b))
      [] h.kind = "number" ->
            IF IsSafeInteger(h)
            THEN Ok(JNum(IF h.neg /\ h.mag # <<>> THEN "I64" ELSE "U64",
                         h.neg /\ h.mag # <<>>, h.mag))
            ELSE Ok(JNum("F64", h.neg, h.mag))
      [] h.kind = "string" -> Ok(JStr(h.s))
      [] h.kind = "array" -> FromItems(h.items, 1, <<>>)
      [] h.kind = "object" -> FromProps(h.props, 1, <<>>)
      [] OTHER -> Err("invalid type")

(***************************************************************************)
(* serde_json's writers.  The compact writer is given as the sequence of   *)
(* the slices it hands to write_all, in order; the text is their           *)
(* concatenation.  Strings hold no control characters other than \n, \t  *)
(* and \r.                                                                 *)
(***************************************************************************)
NeedsEscape(c) == c \in {Quote, Backslash, "\n", "\t", "\r"}

Escape(c) ==
    CASE c = "\n" -> <<Backslash, "n">>
      [] c = "\t" -> <<Backslash, "t">>
      [] c = "\r" -> <<Backslash, "r">>
      [] OTHER -> <<Backslash, c>>

\* format_escaped_str_contents on the characters s: the stretches between
\* escapes, and the escapes
RECURSIVE EscapedChunks(_, _, _)
EscapedChunks(s, from, i) ==
    IF i > Len(s)
    THEN IF from < i THEN <<FromChars(SubSeq(s, from, i - 1))>> ELSE <<>>
    ELSE IF NeedsEscape(s[i])
         THEN (IF from < i THEN <<FromChars(SubSeq(s, from, i - 1))>> ELSE <<>>)
              \o <<FromChars(Escape(s[i]))>> \o EscapedChunks(s, i + 1, i + 1)
         ELSE EscapedChunks(s, from, i + 1)

QuoteText == <<Run(Quote, 1)>>

StrChunks(s) ==
    IF s = <<>> THEN <<QuoteText, QuoteText>>
    ELSE IF \A i \in 1..Len(s) : ~NeedsEscape(s[i].c)
         THEN <<QuoteText, s, QuoteText>>
         ELSE <<QuoteText>> \o EscapedChunks(Chars(s), 1, 1) \o <<QuoteText>>

\* itoa for integers; an integer-valued float prints with ".0"
\* (magnitudes below 10^16, the only floats the inputs give)
NumText(n) ==
    FromChars((IF n.neg THEN <<"-">> ELSE <<>>) \o Itoa(n.mag)
              \o (IF n.repr = "F64" THEN <<".", "0">> ELSE <<>>))

Lit(c) == <<Run(c, 1)>>

RECURSIVE Chunks(_)
RECURSIVE ItemChunks(_, _)
RECURSIVE PairChunks(_, _)

ItemChunks(items, i) ==
    IF i > Len(items) THEN <<>>
    ELSE (IF i > 1 THEN <<Lit(",")>> ELSE <<>>) \o Chunks(items[i]) \o ItemChunks(items, i + 1)

PairChunks(pairs, i) ==
    IF i > Len(pairs) THEN <<>>
    ELSE (IF i > 1 THEN <<Lit(",")>> ELSE <<>>) \o StrChunks(pairs[i].key) \o <<Lit(":")>>
         \o Chunks(pairs[i].val) \o PairChunks(pairs, i + 1)

\* the slices serde_json::to_writer writes for a tree (CompactFormatter)
Chunks(v) ==
    CASE v.kind = "null" -> <<FromChars(<<"n", "u", "l", "l">>)>>
      [] v.kind = "bool" ->
            IF v.b THEN <<FromChars(<<"t", "r", "u", "e">>)>>
            ELSE <<FromChars(<<"f", "a", "l", "s", "e">>)>>
      [] v.kind = "number" -> <<NumText(v)>>
      [] v.kind = "string" -> StrChunks(v.s)
      [] v.kind = "array" -> <<Lit("[")>> \o ItemChunks(v.items, 1) \o <<Lit("]")>>
      [] v.kind = "object" -> <<Lit("{")>> \o PairChunks(v.pairs, 1) \o <<Lit("}")>>

\* serde_json::to_string
to_string(v) == Flatten(Chunks(v))

Indent(d) == IF d = 0 THEN <<>> ELSE <<Run(" ", 2 * d)>>

RECURSIVE Pretty(_, _)
RECURSIVE PrettyItems(_, _, _)
RECURSIVE PrettyPairs(_, _, _)

PrettyItems(items, i, d) ==
    IF i > Len(items) THEN <<>>
    ELSE Flatten(<<IF i > 1 THEN Lit(",") ELSE <<>>, Lit("\n"), Indent(d),
                   Pretty(items[i], d), PrettyItems(items, i + 1, d)>>)

PrettyPairs(pairs, i, d) ==
    IF i > Len(pairs) THEN <<>>
    ELSE Flatten(<<IF i > 1 THEN Lit(",") ELSE <<>>, Lit("\n"), Indent(d),
                   Flatten(StrChunks(pairs[i].key)), Lit(":"), Lit(" "),
                   Pretty(pairs[i].val, d), PrettyPairs(pairs, i + 1, d)>>)

\* what serde_json::to_string_pretty gives for a tree at nesting depth d
Pretty(v, d) ==
    CASE v.kind = "array" /\ v.items # <<>> ->
            Flatten(<<Lit("["), PrettyItems(v.items, 1, d + 1), Lit("\n"), Indent(d), Lit("]")>>)
      [] v.kind = "object" /\ v.pairs # <<>> ->
            Flatten(<<Lit("{"), PrettyPairs(v.pairs, 1, d + 1), Lit("\n"), Indent(d), Lit("}")>>)
      [] OTHER -> to_string(v)

to_string_pretty(v) == Pretty(v, 0)

(***************************************************************************)
(* Vec<u8>: the bytes and the allocated capacity.                          *)
(***************************************************************************)
\* Vec::with_capacity
with_capacity(n) == [bytes |-> <<>>, cap |-> n]

\* Vec::clear: the length goes to 0, the capacity stays
VecClear(v) == [v EXCEPT !.bytes = <<>>]

\* Vec::shrink_to: no-op unless the capacity is above the lower limit
shrink_to(v, min_capacity) ==
    IF v.cap > min_capacity
    THEN [v EXCEPT !.cap = Max(TLen(v.bytes), min_capacity)]
    ELSE v

\* io::Write::write_all on a Vec (extend_from_slice): reserve grows the
\* capacity to max(2 * cap, len + additional) when the slice does not fit
write_all(v, slice) ==
    LET required == TLen(v.bytes) + TLen(slice)
    IN  [bytes |-> Cat(v.bytes, slice),
         cap   |-> IF required > v.cap THEN Max(2 * v.cap, required) ELSE v.cap]

RECURSIVE WriteChunks(_, _, _)
WriteChunks(v, chunks, i) ==
    IF i > Len(chunks) THEN v ELSE WriteChunks(write_all(v, chunks[i]), chunks, i + 1)

\* serde_json::to_writer(&mut vec, &json_value); writing to a Vec cannot fail
to_writer(v, json_value) == WriteChunks(v, Chunks(json_value), 1)

(***************************************************************************)
(* MessageSerializer.  Every method is an operator from the instance (and  *)
(* the arguments) to the instance after the call and the value returned.   *)
(***************************************************************************)
Out(self, ret) == [self |-> self, ret |-> ret]

MessageSerializer_new == [buffer |-> with_capacity(MSG_FLOOR)]

\* serialize_message without buffer.clear(): the bytes of earlier calls stay
serialize_message_no_clear(self, value) ==
    LET json_value == from_value(value)
    IN  IF ~json_value.ok THEN Out(self, Err("Serialization error"))
        ELSE LET buffer == to_writer(self.buffer, json_value.val)
             IN  Out([self EXCEPT !.buffer = buffer], Ok(buffer.bytes))

\* serialize_message that takes a fresh 4 KB buffer in place of buffer.clear()
serialize_message_fresh_buffer(self, value) ==
    LET json_value == from_value(value)
    IN  IF ~json_value.ok THEN Out(self, Err("Serialization error"))
        ELSE LET buffer == to_writer(with_capacity(MSG_FLOOR), json_value.val)
             IN  Out([self EXCEPT !.buffer = buffer], Ok(buffer.bytes))

serialize_message(self, value) ==
    LET json_value == from_value(value)
    IN  IF ~json_value.ok THEN Out(self, Err("Serialization error"))
        ELSE LET buffer == to_writer(VecClear(self.buffer), json_value.val)
             IN  Out([self EXCEPT !.buffer = buffer], Ok(buffer.bytes))

deserialize_message(self, json_str) ==
    LET json_value == from_str(json_str)
    IN  IF ~json_value.ok THEN Out(self, Err("JSON parse error"))
        ELSE Out(self, json_value_to_js(json_value.val))

\* batch_deserialize that gives the results so far when an element fails
RECURSIVE BatchDeserializePartial(_, _, _)
BatchDeserializePartial(json_strings, i, results) ==
    IF i > Len(json_strings) THEN [ret |-> Ok(results), visited |-> i - 1]
    ELSE LET js_str == json_strings[i]
         IN  IF js_str.kind # "string" \/ ~from_str(js_str.s).ok
             THEN [ret |-> Ok(results), visited |-> i]
             ELSE BatchDeserializePartial(
                      json_strings, i + 1,
                      Append(results, json_value_to_js(from_str(js_str.s).val).val))

\* batch_deserialize that checks the type of every element before it parses any
RECURSIVE BatchDeserializeTypesFirst(_, _, _)
BatchDeserializeTypesFirst(json_strings, i, results) ==
    IF \E k \in 1..Len(json_strings) : json_strings[k].kind # "string"
    THEN [ret |-> Err("Expected string in batch"),
          visited |-> CHOOSE k \in 1..Len(json_strings) :
                          /\ json_strings[k].kind # "string"
                          /\ \A j \in 1..(k - 1) : json_strings[j].kind = "string"]
    ELSE IF i > Len(json_strings) THEN [ret |-> Ok(results), visited |-> i - 1]
    ELSE LET json_value == from_str(json_strings[i].s)
         IN  IF ~json_value.ok
             THEN [ret |-> Err("Batch parse error"), visited |-> i]
             ELSE BatchDeserializeTypesFirst(
                      json_strings, i + 1,
                      Append(results, json_value_to_js(json_value.val).val))

\* the loop of batch_deserialize from element i on; visited counts the
\* elements the loop has taken up
RECURSIVE BatchDeserializeLoop(_, _, _)
BatchDeserializeLoop(json_strings, i, results) ==
    IF i > Len(json_strings) THEN [ret |-> Ok(results), visited |-> i - 1]
    ELSE LET js_str == json_strings[i]
         IN  IF js_str.kind # "string"
             THEN [ret |-> Err("Expected string in batch"), visited |-> i]
             ELSE LET json_value == from_str(js_str.s)
                  IN  IF ~json_value.ok
                      THEN [ret |-> Err("Batch parse error"), visited |-> i]
                      ELSE LET js_value == json_value_to_js(json_value.val)
                           IN  IF ~js_value.ok
                               THEN [ret |-> js_value, visited |-> i]
                               ELSE BatchDeserializeLoop(json_strings, i + 1,
                                                         Append(results, js_value.val))

batch_deserialize(self, json_strings) ==
    LET r == BatchDeserializeLoop(json_strings, 1, <<>>)
    IN  [self |-> self, ret |-> r.ret, visited |-> r.visited]

is_valid_json(self, json_str) == Out(self, from_str(json_str).ok)

estimate_size(self, value) ==
    LET json_value == from_value(value)
    IN  IF ~json_value.ok THEN Out(self, Err("Size estimation error"))
        ELSE LET buffer == to_writer(VecClear(self.buffer), json_value.val)
             IN  Out([self EXCEPT !.buffer = buffer], Ok(TLen(buffer.bytes)))

serialize_compact(self, value) == serialize_message(self, value)

\* serialize_pretty that writes through the shared buffer
serialize_pretty_buffered(self, value) ==
    LET json_value == from_value(value)
    IN  IF ~json_value.ok THEN Out(self, Err("Pretty serialization error"))
        ELSE LET buffer == write_all(VecClear(self.buffer), to_string_pretty(json_value.val))
             IN  Out([self EXCEPT !.buffer = buffer], Ok(buffer.bytes))

serialize_pretty(self, value) ==
    LET json_value == from_value(value)
    IN  IF ~json_value.ok THEN Out(self, Err("Pretty serialization error"))
        ELSE Out(self, Ok(to_string_pretty(json_value.val)))

\* clear_buffer that shrinks to fit (shrink_to(0))
clear_buffer_to_fit(self) ==
    Out([self EXCEPT !.buffer = shrink_to(VecClear(self.buffer), 0)], "unit")

clear_buffer(self) ==
    Out([self EXCEPT !.buffer = shrink_to(VecClear(self.buffer), MSG_FLOOR)], "unit")

get_buffer_capacity(self) == Out(self, self.buffer.cap)

quick_serialize(value) ==
    LET json_value == from_value(value)
    IN  IF ~json_value.ok THEN Err("Quick serialize error") ELSE Ok(to_string(json_value.val))

quick_deserialize(json_str) ==
    LET json_value == from_str(json_str)
    IN  IF ~json_value.ok THEN Err("Quick parse error") ELSE json_value_to_js(json_value.val)

(***************************************************************************)
(* StateSerializer.                                                        *)
(***************************************************************************)
StateSerializer_new(enable_compression) ==
    [buffer |-> with_capacity(STATE_FLOOR), compression_enabled |-> enable_compression]

\* serialize_state that marks its output as packed when compression is on
serialize_state_packing(self, value) ==
    LET json_value == from_value(value)
    IN  IF ~json_value.ok THEN Out(self, Err("State serialization error"))
        ELSE Out(self, Ok(IF self.compression_enabled
                          THEN Cat(<<Run("Z", 1)>>, to_string(json_value.val))
                          ELSE to_string(json_value.val)))

serialize_state(self, value) ==
    LET json_value == from_value(value)
    IN  IF ~json_value.ok THEN Out(self, Err("State serialization error"))
        ELSE Out(self, Ok(to_string(json_value.val)))

deserialize_state(self, json_str) ==
    LET json_value == from_str(json_str)
    IN  IF ~json_value.ok THEN Out(self, Err("State parse error"))
        ELSE Out(self, json_value_to_js(json_value.val))

\* the loop of batch_serialize_states from state i on, threading the instance
RECURSIVE BatchSerializeLoop(_, _, _, _)
BatchSerializeLoop(self, states, i, results) ==
    IF i > Len(states) THEN [self |-> self, ret |-> Ok(results), visited |-> i - 1]
    ELSE LET serialized == serialize_state(self, states[i])
         IN  IF ~serialized.ret.ok
             THEN [self |-> serialized.self, ret |-> serialized.ret, visited |-> i]
             ELSE BatchSerializeLoop(serialized.self, states, i + 1,
                                     Append(results, HStr(serialized.ret.val)))

batch_serialize_states(self, states) == BatchSerializeLoop(self, states, 1, <<>>)

\* the JSON equality of two trees: objects compared as mappings
RECURSIVE JsonEquiv(_, _)
JsonEquiv(a, b) ==
    /\ a.kind = b.kind
    /\ CASE a.kind = "array" ->
                /\ Len(a.items) = Len(b.items)
                /\ \A i \in 1..Len(a.items) : JsonEquiv(a.items[i], b.items[i])
         [] a.kind = "object" ->
                /\ Keys(a.pairs) = Keys(b.pairs)
                /\ \A i \in 1..Len(a.pairs) : \A j \in 1..Len(b.pairs) :
                       a.pairs[i].key = b.pairs[j].key
                           => JsonEquiv(a.pairs[i].val, b.pairs[j].val)
         [] OTHER -> a = b

\* states_equal that compares the parsed states when both parse
states_equal_parsed(self, state1, state2) ==
    LET a == from_str(state1)
        b == from_str(state2)
    IN  Out(self, IF a.ok /\ b.ok THEN JsonEquiv(a.val, b.val) ELSE state1 = state2)

states_equal(self, state1, state2) == Out(self, state1 = state2)

get_state_size(self, value) ==
    LET json_value == from_value(value)
    IN  IF ~json_value.ok THEN Out(self, Err("Size estimation error"))
        ELSE LET buffer == to_writer(VecClear(self.buffer), json_value.val)
             IN  Out([self EXCEPT !.buffer = buffer], Ok(TLen(buffer.bytes)))

compress_buffer(self, data) == data

decompress_str(self, data) == Ok(data)

quick_serialize_state(value) ==
    LET json_value == from_value(value)
    IN  IF ~json_value.ok THEN Err("Quick state serialize error")
        ELSE Ok(to_string(json_value.val))

quick_deserialize_state(json_str) ==
    LET json_value == from_str(json_str)
    IN  IF ~json_value.ok THEN Err("Quick state parse error")
        ELSE json_value_to_js(json_value.val)


(***************************************************************************)
(* Inputs.                                                                 *)
(***************************************************************************)
Leaves == {JNull, JBool(TRUE), JInt(1), JStr(Lit("s"))}

KeyChoices == {Lit("a"), ProtoKey}

\* the sequences of n distinct keys
RECURSIVE KeySeqs(_)
KeySeqs(n) ==
    IF n = 0 THEN {<<>>}
    ELSE {Append(ks, k) : <<ks, k>> \in
             {x \in KeySeqs(n - 1) \X KeyChoices :
                 \A i \in 1..Len(x[1]) : x[1][i] # x[2]}}

RECURSIVE Sized(_)
RECURSIVE Forests(_)

\* the sequences of trees with n nodes in all
Forests(n) ==
    IF n = 0 THEN {<<>>}
    ELSE UNION {{<<x[1]>> \o x[2] : x \in Sized(m) \X Forests(n - m)} : m \in 1..n}

\* the trees with exactly n nodes
Sized(n) ==
    IF n = 1 THEN Leaves \cup {JArr(<<>>), JObj(<<>>)}
    ELSE {JArr(f) : f \in Forests(n - 1)}
         \cup {JObj([i \in 1..Len(x[1]) |-> Pair(x[2][i], x[1][i])]) :
                  x \in {y \in Forests(n - 1) \X UNION {KeySeqs(k) : k \in 0..(n - 1)} :
                            Len(y[1]) = Len(y[2])}}

Trees == UNION {Sized(n) : n \in 1..MaxNodes}

\* 2^n - 1
Pow2Minus1(n) ==
    [i \in 1..(n \div LimbBits) |-> Base - 1]
    \o (IF n % LimbBits = 0 THEN <<>> ELSE <<2 ^ (n % LimbBits) - 1>>)

\* magnitudes around the edges of f64 and i64
Magnitudes ==
    {<<>>, <<1>>, NatBits(4096), Pow2Minus1(F64_BITS), Pow2(F64_BITS),
     BAdd(Pow2(F64_BITS), <<1>>), BAdd(Pow2(F64_BITS), <<2>>),
     BAdd(Pow2(F64_BITS), <<3>>), BAdd(Pow2(F64_BITS + 1), <<2>>),
     Pow2(I64_BITS - 1), Pow2Minus1(I64_BITS)}

\* the decimal texts of integers of the i64 range
IntTexts ==
    {FromChars(Itoa(m)) : m \in Magnitudes}
    \cup {FromChars(<<"-">> \o Itoa(m)) : m \in (Magnitudes \cup {Pow2(I64_BITS)}) \ {<<>>}}

\* the texts given to the bridge under SpecBridge
BridgeTexts == {to_string(t) : t \in Trees} \cup IntTexts

TextAB ==
    FromChars(<<"{", Quote, "a", Quote, ":", "1", ",", Quote, "b", Quote, ":", "2", "}">>)
TextBA ==
    FromChars(<<"{", Quote, "b", Quote, ":", "2", ",", Quote, "a", Quote, ":", "1", "}">>)
TextSpaced == FromChars(<<"[", "1", ",", " ", "t", "r", "u", "e", "]", " ">>)
TextEmptyObject == FromChars(<<"{", "}">>)
TextInvalid == FromChars(<<"{", "i", "n", "v", "a", "l", "i", "d">>)
TextEmpty == <<>>

SmallTexts == {TextAB, TextBA, TextSpaced, TextEmptyObject, TextInvalid, TextEmpty}

\* the texts compared by statesEqual
EqualTexts == {TextAB, TextBA, TextInvalid}

BigString == HStr(<<Run("x", BigLen)>>)
HostNested ==
    HObj(<<Pair(Lit("a"), HObj(<<Pair(Lit("b"), HArr(<<HInt(1), HBool(TRUE)>>))>>,
                               ObjectPrototype))>>, ObjectPrototype)
HostQuoted == HStr(FromChars(<<"a", Quote, "b">>))
HostBad == HArr(<<HInt(1), HFunction>>)

\* the host values given to the serializing operations
HostInputs == {HostQuoted, HostNested, HostBad, BigString}

\* the elements of the batches of batchDeserialize
BatchElems == {HStr(TextAB), HStr(TextSpaced), HStr(TextInvalid), HInt(1)}

\* the elements of the batches of batchSerializeStates
StateElems == {HostNested, HostBad}

RECURSIVE SeqsUpTo(_, _)
SeqsUpTo(S, n) ==
    IF n = 0 THEN {<<>>}
    ELSE SeqsUpTo(S, n - 1)
         \cup {Append(x[1], x[2]) : x \in {y \in SeqsUpTo(S, n - 1) \X S : Len(y[1]) = n - 1}}

Batches == SeqsUpTo(BatchElems, MaxBatch)
StateBatches == SeqsUpTo(StateElems, MaxBatch)

(***************************************************************************)
(* The state.  A behaviour follows the calls on one codec object and the   *)
(* calls of the free functions: inst names the constructor that built the *)
(* object, ser is the MessageSerializer, plain and packed are              *)
(* StateSerializers built with enable_compression false and true and given *)
(* the same calls (instances that are not the one followed stay as         *)
(* constructed).  op, arg, ret record the last call: its name, arguments   *)
(* and result (retc: the result of the compression-enabled instance);      *)
(* visited is the number of batch elements it took up, capBefore the       *)
(* capacity of the MessageSerializer's buffer before it.                   *)
(***************************************************************************)
VARIABLES inst, ser, plain, packed, op, arg, ret, retc, visited, capBefore

vars == <<inst, ser, plain, packed, op, arg, ret, retc, visited, capBefore>>

Init ==
    /\ inst \in {"MessageSerializer", "StateSerializer"}
    /\ ser = MessageSerializer_new
    /\ plain = StateSerializer_new(FALSE)
    /\ packed = StateSerializer_new(TRUE)
    /\ op = "new"
    /\ arg = <<>>
    /\ ret = "unit"
    /\ retc = "unit"
    /\ visited = 0
    /\ capBefore = MSG_FLOOR

\* the rest of a call on the MessageSerializer: r is what the method gives
TextResult(r, n) ==
    /\ inst = "MessageSerializer"
    /\ ser' = r.self
    /\ ret' = r.ret
    /\ retc' = "none"
    /\ visited' = n
    /\ capBefore' = ser.buffer.cap
    /\ UNCHANGED <<inst, plain, packed>>

\* the rest of the same call on both StateSerializers
StateResult(r, rc, n) ==
    /\ inst = "StateSerializer"
    /\ plain' = r.self
    /\ packed' = rc.self
    /\ ret' = r.ret
    /\ retc' = rc.ret
    /\ visited' = n
    /\ capBefore' = ser.buffer.cap
    /\ UNCHANGED <<inst, ser>>

\* the rest of a call of a free function
FreeResult(r) ==
    /\ ret' = r
    /\ retc' = "none"
    /\ visited' = 0
    /\ capBefore' = ser.buffer.cap
    /\ UNCHANGED <<inst, ser, plain, packed>>

SerializeMessage ==
    \E v \in HostInputs :
        /\ op' = "serializeMessage"
        /\ arg' = v
        /\ TextResult(serialize_message(ser, v), 0)

SerializeCompact ==
    \E v \in HostInputs :
        /\ op' = "serializeCompact"
        /\ arg' = v
        /\ TextResult(serialize_compact(ser, v), 0)

SerializePretty ==
    \E v \in HostInputs :
        /\ op' = "serializePretty"
        /\ arg' = v
        /\ TextResult(serialize_pretty(ser, v), 0)

EstimateSize ==
    \E v \in HostInputs :
        /\ op' = "estimateSize"
        /\ arg' = v
        /\ TextResult(estimate_size(ser, v), 0)

ClearBuffer ==
    /\ op' = "clearBuffer"
    /\ arg' = <<>>
    /\ TextResult(clear_buffer(ser), 0)

GetBufferCapacity ==
    /\ op' = "getBufferCapacity"
    /\ arg' = <<>>
    /\ TextResult(get_buffer_capacity(ser), 0)

DeserializeMessage(T) ==
    \E t \in T :
        /\ op' = "deserializeMessage"
        /\ arg' = t
        /\ TextResult(deserialize_message(ser, t), 0)

IsValidJson ==
    \E t \in SmallTexts :
        /\ op' = "isValidJson"
        /\ arg' = t
        /\ TextResult(is_valid_json(ser, t), 0)

BatchDeserialize ==
    \E b \in Batches :
        /\ op' = "batchDeserialize"
        /\ arg' = b
        /\ LET r == batch_deserialize(ser, b) IN TextResult(r, r.visited)

SerializeState ==
    \E v \in HostInputs :
        /\ op' = "serializeState"
        /\ arg' = v
        /\ StateResult(serialize_state(plain, v), serialize_state(packed, v), 0)

DeserializeState(T) ==
    \E t \in T :
        /\ op' = "deserializeState"
        /\ arg' = t
        /\ StateResult(deserialize_state(plain, t), deserialize_state(packed, t), 0)

BatchSerializeStates ==
    \E b \in StateBatches :
        /\ op' = "batchSerializeStates"
        /\ arg' = b
        /\ LET r == batch_serialize_states(plain, b)
           IN  StateResult(r, batch_serialize_states(packed, b), r.visited)

StatesEqual ==
    \E a \in EqualTexts, b \in EqualTexts :
        /\ op' = "statesEqual"
        /\ arg' = <<a, b>>
        /\ StateResult(states_equal(plain, a, b), states_equal(packed, a, b), 0)

GetStateSize ==
    \E v \in HostInputs :
        /\ op' = "getStateSize"
        /\ arg' = v
        /\ StateResult(get_state_size(plain, v), get_state_size(packed, v), 0)

QuickSerialize ==
    \E v \in HostInputs :
        /\ op' = "quickSerialize"
        /\ arg' = v
        /\ FreeResult(quick_serialize(v))

QuickDeserialize(T) ==
    \E t \in T :
        /\ op' = "quickDeserialize"
        /\ arg' = t
        /\ FreeResult(quick_deserialize(t))

QuickSerializeState ==
    \E v \in HostInputs :
        /\ op' = "quickSerializeState"
        /\ arg' = v
        /\ FreeResult(quick_serialize_state(v))

QuickDeserializeState(T) ==
    \E t \in T :
        /\ op' = "quickDeserializeState"
        /\ arg' = t
        /\ FreeResult(quick_deserialize_state(t))

Next ==
    \/ SerializeMessage
    \/ SerializeCompact
    \/ SerializePretty
    \/ EstimateSize
    \/ ClearBuffer
    \/ GetBufferCapacity
    \/ DeserializeMessage(SmallTexts)
    \/ IsValidJson
    \/ BatchDeserialize
    \/ SerializeState
    \/ DeserializeState(SmallTexts)
    \/ BatchSerializeStates
    \/ StatesEqual
    \/ GetStateSize
    \/ QuickSerialize
    \/ QuickDeserialize(SmallTexts)
    \/ QuickSerializeState
    \/ QuickDeserializeState(SmallTexts)

Spec == Init /\ [][Next]_vars

(***************************************************************************)
(* The deserializing operations as functions of their text: the text is    *)
(* drawn first (op "pending": fresh instances and a text to deserialize),  *)
(* then one of the four operations is applied to it.                       *)
(***************************************************************************)
InitBridge ==
    /\ inst \in {"MessageSerializer", "StateSerializer"}
    /\ ser = MessageSerializer_new
    /\ plain = StateSerializer_new(FALSE)
    /\ packed = StateSerializer_new(TRUE)
    /\ op = "pending"
    /\ arg \in BridgeTexts
    /\ ret = "unit"
    /\ retc = "unit"
    /\ visited = 0
    /\ capBefore = MSG_FLOOR

BridgeDeserializeMessage ==
    /\ op = "pending"
    /\ DeserializeMessage({arg})

BridgeDeserializeState ==
    /\ op = "pending"
    /\ DeserializeState({arg})

BridgeQuickDeserialize ==
    /\ op = "pending"
    /\ QuickDeserialize({arg})

BridgeQuickDeserializeState ==
    /\ op = "pending"
    /\ QuickDeserializeState({arg})

NextBridge ==
    \/ BridgeDeserializeMessage
    \/ BridgeDeserializeState
    \/ BridgeQuickDeserialize
    \/ BridgeQuickDeserializeState

SpecBridge == InitBridge /\ [][NextBridge]_vars


(***************************************************************************)
(* Properties.                                                             *)
(***************************************************************************)
DeserializeOps ==
    {"deserializeMessage", "deserializeState", "quickDeserialize", "quickDeserializeState"}

\* h has the kind and the structure of the tree v
RECURSIVE SameShape(_, _)
SameShape(v, h) ==
    CASE v.kind = "null" -> h = HNull
      [] v.kind = "bool" -> h = HBool(v.b)
      [] v.kind = "number" -> h.kind = "number"
      [] v.kind = "string" -> h = HStr(v.s)
      [] v.kind = "array" ->
            /\ h.kind = "array"
            /\ Len(h.items) = Len(v.items)
            /\ \A i \in 1..Len(v.items) : SameShape(v.items[i], h.items[i])
      [] v.kind = "object" ->
            /\ h.kind = "object"
            /\ Keys(h.props) = Keys(v.pairs)
            /\ \A i \in 1..Len(v.pairs) : \A j \in 1..Len(h.props) :
                   v.pairs[i].key = h.props[j].key
                       => SameShape(v.pairs[i].val, h.props[j].val)

\* C1: deserialize gives, for the text of every JSON tree, a host value of the
\* same kind and structure: an array of the same length with the bridged items
\* in order, an object with exactly the keys of the tree, each holding the
\* bridge of its value (so no object with a key becomes an empty mapping).
C1_BridgeKeepsStructure ==
    (op \in DeserializeOps /\ from_str(arg).ok)
        => (ret.ok /\ SameShape(from_str(arg).val, ret.val))

IsValidElem(e) == e.kind = "string" /\ from_str(e.s).ok

\* C2: batchDeserialize on N valid JSON strings gives N host values, the i-th
\* the result of deserialize on the i-th string; on strings of which one is
\* malformed it gives an error and no results at all.
C2_BatchAllOrNothing ==
    op = "batchDeserialize" =>
        /\ (\A i \in 1..Len(arg) : IsValidElem(arg[i])) =>
               /\ ret.ok
               /\ Len(ret.val) = Len(arg)
               /\ \A i \in 1..Len(arg) :
                      Ok(ret.val[i]) = deserialize_message(ser, arg[i].s).ret
        /\ (\E k \in 1..Len(arg) : arg[k].kind = "string" /\ ~from_str(arg[k].s).ok) =>
               /\ ~ret.ok
               /\ DOMAIN ret = {"ok", "err"}

\* a batch whose first string is valid and whose second is malformed has failed
C2_Witness ==
    /\ op = "batchDeserialize"
    /\ Len(arg) >= 2
    /\ IsValidElem(arg[1])
    /\ arg[2].kind = "string"
    /\ ~from_str(arg[2].s).ok
    /\ ~ret.ok

\* C3: whatever was called on the instance before, estimateSize(v) is the byte
\* length of the text serialize(v) returns, and both fail together; that text
\* is the one a call without a shared buffer gives (no earlier byte is in it).
C3_EstimateIsSerializedLength ==
    /\ op = "estimateSize" =>
           LET s == serialize_message(ser, arg).ret
           IN  /\ ret.ok = s.ok
               /\ ret.ok => (ret.val = TLen(s.val) /\ s.val = quick_serialize(arg).val)
    /\ op \in {"serializeMessage", "serializeCompact"} =>
           LET e == estimate_size(ser, arg).ret
           IN  /\ ret.ok = e.ok
               /\ ret.ok => (e.val = TLen(ret.val) /\ ret.val = quick_serialize(arg).val)

\* estimateSize of a short value on a buffer that held a long text before
C3_Witness ==
    /\ op = "estimateSize"
    /\ ret.ok
    /\ ret.val < MSG_FLOOR
    /\ capBefore > MSG_FLOOR

\* C4: in every state the buffer of a MessageSerializer has a capacity of at
\* least 4096 and that of a StateSerializer of at least 8192 (so after
\* clearBuffer too, and getBufferCapacity reports it); a freshly constructed
\* instance has exactly the floor.
C4_CapacityFloor ==
    /\ ser.buffer.cap >= MSG_FLOOR
    /\ plain.buffer.cap >= STATE_FLOOR
    /\ packed.buffer.cap >= STATE_FLOOR
    /\ op = "new" =>
           /\ ser.buffer.cap = MSG_FLOOR
           /\ plain.buffer.cap = STATE_FLOOR
           /\ packed.buffer.cap = STATE_FLOOR
    /\ op = "getBufferCapacity" => (ret = ser.buffer.cap /\ ret >= MSG_FLOOR)

\* clearBuffer has brought a grown buffer back to the floor
C4_Witness ==
    /\ op = "clearBuffer"
    /\ capBefore > MSG_FLOOR
    /\ ser.buffer.cap = MSG_FLOOR

\* C5: from one call to the next the capacity of a codec's buffer never goes
\* down, unless the call is clearBuffer.
C5_CapacityMonotone ==
    [][/\ ser'.buffer.cap >= ser.buffer.cap \/ op' = "clearBuffer"
       /\ plain'.buffer.cap >= plain.buffer.cap
       /\ packed'.buffer.cap >= packed.buffer.cap]_vars

\* a serializing call has written a short text into a grown buffer and kept
\* the capacity
C5_Witness ==
    /\ op \in {"serializeMessage", "serializeCompact", "estimateSize"}
    /\ ret.ok
    /\ TLen(ser.buffer.bytes) < MSG_FLOOR
    /\ capBefore > MSG_FLOOR
    /\ ser.buffer.cap = capBefore

\* the decimal text of an integer of the i64 range, as itoa writes it
IsI64Text(t) ==
    LET cs  == Chars(t)
        neg == At(cs, 1) = "-"
        ds  == IF neg THEN Tail(cs) ELSE cs
        mag == FromDigits(ds)
    IN  /\ ds # <<>>
        /\ \A i \in 1..Len(ds) : IsDigit(ds[i])
        /\ ds[1] = "0" => (Len(ds) = 1 /\ ~neg)
        /\ BitLen(mag) <= I64_BITS \/ (neg /\ mag = Pow2(I64_BITS))

\* the integer a decimal text denotes
IntOf(t) ==
    LET cs == Chars(t)
    IN  [neg |-> At(cs, 1) = "-",
         mag |-> FromDigits(IF At(cs, 1) = "-" THEN Tail(cs) ELSE cs)]

\* the number of bits from the highest to the lowest set bit of m
SigBits(m) ==
    IF m = <<>> THEN 0
    ELSE BitLen(m) - (CHOOSE p \in 0..(BitLen(m) - 1) :
                          Bit(m, p) = 1 /\ \A q \in 0..(p - 1) : Bit(m, q) = 0)

\* C6 as claimed: deserializing the text of any integer of the i64 range gives
\* a host number whose value is exactly that integer.
C6_ExactInteger ==
    (op \in DeserializeOps /\ IsI64Text(arg))
        => ret = Ok(HNum(IntOf(arg).neg, IntOf(arg).mag))

\* C6 as amended: deserializing the text of an integer of the i64 range gives
\* a host number of the same sign that is a double (at most 53 significant
\* bits); its value is exactly the integer when the integer has at most 53
\* significant bits (so for every magnitude up to 2^53) and differs from it
\* otherwise.
C6_ExactWhenRepresentable ==
    (op \in DeserializeOps /\ IsI64Text(arg)) =>
        /\ ret.ok
        /\ ret.val.kind = "number"
        /\ ret.val.neg = IntOf(arg).neg
        /\ SigBits(ret.val.mag) <= F64_BITS
        /\ (ret.val.mag = IntOf(arg).mag) <=> (SigBits(IntOf(arg).mag) <= F64_BITS)

\* 2^53 + 2, above 2^53 and a double, has come out exact
C6_Witness ==
    /\ op = "deserializeMessage"
    /\ IsI64Text(arg)
    /\ IntOf(arg).mag = BAdd(Pow2(F64_BITS), <<2>>)
    /\ ret = Ok(HNum(FALSE, BAdd(Pow2(F64_BITS), <<2>>)))

\* C7: statesEqual(a, b) is true exactly when a and b are the same sequence of
\* bytes, whatever the buffer and the compression flag of the instance.
C7_StatesEqualIsByteEquality ==
    op = "statesEqual" =>
        /\ ret = (Chars(arg[1]) = Chars(arg[2]))
        /\ retc = ret

\* two texts of the same JSON object, keys in another order, are not equal
C7_Witness ==
    /\ op = "statesEqual"
    /\ arg[1] # arg[2]
    /\ from_str(arg[1]).ok
    /\ from_str(arg[2]).ok
    /\ JsonEquiv(from_str(arg[1]).val, from_str(arg[2]).val)
    /\ ret = FALSE

StateOps ==
    {"serializeState", "deserializeState", "batchSerializeStates", "getStateSize",
     "statesEqual"}

\* C8: a StateSerializer built with compression and one built without, given
\* the same calls, return the same results and hold the same buffer, and the
\* compress and decompress hooks return their input.
C8_CompressionFlagInert ==
    /\ packed.compression_enabled /\ ~plain.compression_enabled
    /\ packed.buffer = plain.buffer
    /\ op \in StateOps => retc = ret
    /\ (op = "serializeState" /\ ret.ok) =>
           /\ compress_buffer(packed, ret.val) = ret.val
           /\ decompress_str(packed, ret.val) = Ok(ret.val)

\* serializeState has returned a text on both instances
C8_Witness ==
    /\ op = "serializeState"
    /\ ret.ok
    /\ retc.ok
    /\ TLen(ret.val) > 0
    /\ packed.compression_enabled

\* C9: a call changes the MessageSerializer (its buffer: bytes and capacity)
\* only if it is serialize, serializeCompact, estimateSize or clearBuffer;
\* serializePretty, getBufferCapacity, deserialize, batchDeserialize and
\* isValidJson leave it as it was, whether they succeed or fail.
C9_OnlyWritersTouchBuffer ==
    [][/\ ser' # ser =>
              op' \in {"serializeMessage", "serializeCompact", "estimateSize", "clearBuffer"}
       /\ op' \in {"serializePretty", "getBufferCapacity", "deserializeMessage",
                   "batchDeserialize", "isValidJson"} => ser' = ser]_vars

\* serializePretty has returned a text while the buffer holds another one
C9_Witness ==
    /\ op = "serializePretty"
    /\ ret.ok
    /\ ser.buffer.bytes # <<>>
    /\ ser.buffer.bytes # quick_serialize(arg).val

\* the index of the first element of a batch that is not a valid JSON string,
\* 0 if there is none
FirstBad(b) ==
    IF \A i \in 1..Len(b) : IsValidElem(b[i]) THEN 0
    ELSE CHOOSE k \in 1..Len(b) :
             ~IsValidElem(b[k]) /\ \A j \in 1..(k - 1) : IsValidElem(b[j])

\* the index of the first state of a batch that cannot be serialized, 0 if none
FirstBadState(b) ==
    IF \A i \in 1..Len(b) : from_value(b[i]).ok THEN 0
    ELSE CHOOSE k \in 1..Len(b) :
             ~from_value(b[k]).ok /\ \A j \in 1..(k - 1) : from_value(b[j]).ok

\* C10: a batch is processed in input order and stops at the first failure:
\* batchDeserialize returns the error of the lowest-index bad element (a type
\* error if it is not a string, a parse error if it is a malformed string) and
\* takes up no element after it; batchSerializeStates returns the error of the
\* first state that fails and serializes no later state.
C10_BatchFailsFast ==
    /\ op = "batchDeserialize" =>
           LET k == FirstBad(arg)
           IN  IF k = 0 THEN ret.ok /\ visited = Len(arg)
               ELSE /\ visited = k
                    /\ ret = IF arg[k].kind # "string"
                             THEN Err("Expected string in batch")
                             ELSE Err("Batch parse error")
    /\ op = "batchSerializeStates" =>
           LET k == FirstBadState(arg)
           IN  IF k = 0 THEN ret.ok /\ Len(ret.val) = Len(arg) /\ visited = Len(arg)
               ELSE visited = k /\ ret = Err("State serialization error")

\* a malformed string before an element that is no string: the parse error
C10_Witness ==
    /\ op = "batchDeserialize"
    /\ Len(arg) >= 2
    /\ arg[1].kind = "string"
    /\ ~from_str(arg[1].s).ok
    /\ arg[2].kind # "string"
    /\ ret = Err("Batch parse error")
    /\ visited = 1

====
